---- MODULE Spec2Model ----
(***************************************************************************)
(* totpify: Base32 secret decoding, HOTP code derivation, time-windowed   *)
(* TOTP generation and verification, random secrets and the command line  *)
(* tool.                                                                   *)
(*                                                                         *)
(* A JavaScript string is a sequence of one-character strings, a           *)
(* Uint8Array a sequence of numbers in 0..255.  The two-letter string "sz" *)
(* stands for the character U+00DF, whose upper-case form is "SS".         *)
(* Timestamps are integer milliseconds below 2^52, where the floating      *)
(* point divisions of generateTOTP are exact on the integer part.          *)
(***************************************************************************)
EXTENDS Integers, Sequences, FiniteSets

VARIABLES pc, op, token, secret, options, now, i, probed, totpCalls,
          hotpCalls, decodeCalls, result, args

vars == <<pc, op, token, secret, options, now, i, probed, totpCalls,
          hotpCalls, decodeCalls, result, args>>

(***************************************************************************)
(* Bounds of the explored inputs.                                          *)
(***************************************************************************)
MaxWindow == 2
MaxTextLen == 3
MaxSecretLen == 2

(***************************************************************************)
(* Strings.                                                                *)
(***************************************************************************)
DigitChars == <<"0", "1", "2", "3", "4", "5", "6", "7", "8", "9">>

UpperLetters == {"A", "B", "C", "D", "E", "F", "G", "H", "I", "J", "K", "L", "M",
                 "N", "O", "P", "Q", "R", "S", "T", "U", "V", "W", "X", "Y", "Z"}

WhitespaceChars == {" ", "\t", "\n"}

\* the regular expression class \d
IsDigit(ch) == \E d \in 1..10 : DigitChars[d] = ch

\* String.prototype.toUpperCase on one character: a sequence of characters
UpperChar(ch) ==
  CASE ch = "a" -> <<"A">>
    [] ch = "b" -> <<"B">>
    [] ch = "j" -> <<"J">>
    [] ch = "sz" -> <<"S", "S">>
    [] OTHER -> <<ch>>

RECURSIVE toUpperCase(_)
toUpperCase(s) ==
  IF s = <<>> THEN <<>> ELSE UpperChar(Head(s)) \o toUpperCase(Tail(s))

\* s.replace(/\s+/g, '')
RemoveWhitespace(s) == SelectSeq(s, LAMBDA ch : ch \notin WhitespaceChars)

\* s.replace(/=+$/, '')
RECURSIVE StripPadding(_)
StripPadding(s) ==
  IF s # <<>> /\ s[Len(s)] = "=" THEN StripPadding(SubSeq(s, 1, Len(s) - 1))
  ELSE s

RECURSIVE NatToString(_)
NatToString(n) ==
  IF n < 10 THEN <<DigitChars[n + 1]>>
  ELSE NatToString(n \div 10) \o <<DigitChars[(n % 10) + 1]>>

\* Number.prototype.toString() of an integer
NumberToString(n) == IF n < 0 THEN <<"-">> \o NatToString(-n) ELSE NatToString(n)

\* String.prototype.padStart(len, ch)
RECURSIVE padStart(_, _, _)
padStart(s, len, ch) == IF Len(s) >= len THEN s ELSE padStart(<<ch>> \o s, len, ch)

RECURSIVE Pow(_, _)
Pow(b, e) == IF e = 0 THEN 1 ELSE b * Pow(b, e - 1)

(***************************************************************************)
(* utils: normalizeSecret, decodeBase32.                                   *)
(***************************************************************************)
Base32Alphabet ==
  <<"A", "B", "C", "D", "E", "F", "G", "H", "I", "J", "K", "L", "M", "N", "O", "P",
    "Q", "R", "S", "T", "U", "V", "W", "X", "Y", "Z", "2", "3", "4", "5", "6", "7">>

\* alphabet.indexOf(char), zero-based, -1 when absent
IndexOf(ch) ==
  IF \E k \in 1..32 : Base32Alphabet[k] = ch
  THEN (CHOOSE k \in 1..32 : Base32Alphabet[k] = ch) - 1
  ELSE -1

\* variant of normalizeSecret: letter case kept
normalizeSecretKeepCase(s) == RemoveWhitespace(s)

normalizeSecret(s) == toUpperCase(RemoveWhitespace(s))

\* variant of the character test: '=' admitted
MatchesBase32OrPad(s) ==
  /\ s # <<>>
  /\ \A k \in 1..Len(s) :
       s[k] \in UpperLetters \cup {"2", "3", "4", "5", "6", "7", "="}

\* /^[A-Z2-7]+$/.test(s)
MatchesBase32(s) ==
  /\ s # <<>>
  /\ \A k \in 1..Len(s) : s[k] \in UpperLetters \cup {"2", "3", "4", "5", "6", "7"}

\* (value << 5) | idx on a 32-bit signed accumulator, 0 <= idx < 32
ShiftIn(value, idx) ==
  LET low26 == value % 67108864
      bit26 == (value \div 67108864) % 2
  IN  IF bit26 = 1 THEN (low26 * 32 + idx) + (-2147483647 - 1)
      ELSE low26 * 32 + idx

\* variant of the extraction: the low byte, unshifted
ExtractByteUnshifted(value, k) == value % 256

\* (value >>> k) & 0xff for 0 <= k <= 23
ExtractByte(value, k) == (value \div Pow(2, k)) % 256

\* the loop of decodeBase32 from character k on: the bytes pushed
RECURSIVE DecodeLoop(_, _, _, _)
DecodeLoop(key, k, bits, value) ==
  IF k > Len(key) THEN <<>>
  ELSE LET v2 == ShiftIn(value, IndexOf(key[k]))
           b2 == bits + 5
       IN  IF b2 >= 8
           THEN <<ExtractByte(v2, b2 - 8)>> \o DecodeLoop(key, k + 1, b2 - 8, v2)
           ELSE DecodeLoop(key, k + 1, b2, v2)

EmptyBase32 == <<"Empty Base32 string">>
InvalidBase32 == <<"Invalid base32 character in key">>

decodeBase32(base32) ==
  LET normalizedKey == StripPadding(normalizeSecret(base32))
  IN  IF Len(normalizedKey) = 0 THEN [ok |-> FALSE, error |-> EmptyBase32]
      ELSE IF ~MatchesBase32(normalizedKey)
        THEN [ok |-> FALSE, error |-> InvalidBase32]
      ELSE [ok |-> TRUE, bytes |-> DecodeLoop(normalizedKey, 1, 0, 0)]

(***************************************************************************)
(* utils: generateHOTP.                                                    *)
(***************************************************************************)
\* tempCounter >>> 8, for a counter within the 32-bit signed range
Ushr8(t) == IF t >= 0 THEN t \div 256 ELSE (t \div 256) + 16777216

\* the loop filling counterBuffer[n-1] down to counterBuffer[0]
RECURSIVE CounterLoop(_, _)
CounterLoop(tempCounter, n) ==
  IF n = 0 THEN <<>>
  ELSE CounterLoop(Ushr8(tempCounter), n - 1) \o <<tempCounter % 256>>

CounterBuffer(counter) == CounterLoop(counter, 8)

algoMap(algorithm) ==
  CASE algorithm = "SHA-1" -> "sha1"
    [] algorithm = "SHA-256" -> "sha256"
    [] algorithm = "SHA-512" -> "sha512"

DigestLength(hash) ==
  CASE hash = "sha1" -> 20
    [] hash = "sha256" -> 32
    [] hash = "sha512" -> 64

RECURSIVE Absorb(_, _)
Absorb(h, bytes) ==
  IF bytes = <<>> THEN h ELSE Absorb((h * 33 + Head(bytes) + 1) % 65521, Tail(bytes))

\* crypto.createHmac(hash, key).update(message).digest(): the keyed hash is
\* outside the repository.  A fixed keyed mixing function with the digest
\* length of the named hash stands for it; like the real one it is
\* deterministic and maps distinct messages to codes that sometimes coincide.
Hmac(hash, key, message) ==
  LET h == Absorb(Absorb(DigestLength(hash), key) + 7919, message)
  IN  [j \in 1..DigestLength(hash) |-> ((h \div j) + h * j + j * j) % 256]

\* variant of the truncation: the first byte unmasked, its top bit becoming
\* the sign of the 32-bit result
TruncateUnmasked(digest) ==
  LET offset == digest[Len(digest)] % 16
      first == digest[offset + 1]
  IN  (IF first >= 128 THEN first - 256 ELSE first) * 16777216
        + (digest[offset + 2] % 256) * 65536
        + (digest[offset + 3] % 256) * 256
        + (digest[offset + 4] % 256)

\* dynamic truncation: digest is indexed from 1 here, from 0 in the source
Truncate(digest) ==
  LET offset == digest[Len(digest)] % 16
  IN  (digest[offset + 1] % 128) * 16777216
        + (digest[offset + 2] % 256) * 65536
        + (digest[offset + 3] % 256) * 256
        + (digest[offset + 4] % 256)

\* binary % Math.pow(10, digits) for 0 <= binary < 2^31: the power exceeds
\* binary from ten digits on
Modulo(binary, digits) == IF digits >= 10 THEN binary ELSE binary % Pow(10, digits)

\* the code derived from the digest: truncation, modulo, padding
CodeFromDigest(digest, digits) ==
  LET binary == Truncate(digest)
      otp == Modulo(binary, digits)
  IN  padStart(NumberToString(otp), digits, "0")

generateHOTP(key, counter, algorithm, digits) ==
  CodeFromDigest(Hmac(algoMap(algorithm), key, CounterBuffer(counter)), digits)

\* A counter beyond the 32-bit range is the number hi * 2^24 + lo with
\* 0 <= lo < 2^24; hi < 2^29 covers the integers a JavaScript number holds
\* exactly.
WideCounter(hi, lo) == [hi |-> hi, lo |-> lo]

\* tempCounter & 0xff
LowByte(w) == w.lo % 256

\* tempCounter >>> 8: ToUint32 keeps the low 32 bits, the result is below 2^24
Ushr8Wide(w) == (w.hi % 256) * 65536 + (w.lo \div 256)

\* counterBuffer after the loop, for a wide counter
CounterBufferWide(w) == CounterLoop(Ushr8Wide(w), 7) \o <<LowByte(w)>>

\* generateHOTP(key, counter, algorithm, digits) when the keyed hash returns
\* digest: the locals at the end of the call
generateHOTPWide(key, w, algorithm, digits, digest) ==
  [counterBuffer |-> CounterBufferWide(w),
   digest |-> digest,
   code |-> CodeFromDigest(digest, digits)]

(***************************************************************************)
(* totp: generateTOTP.  An option is <<>> when the property is absent and  *)
(* <<v>> when it is v.  A secret is undefined, a string or a Uint8Array.   *)
(***************************************************************************)
OptionOr(field, default) == IF field = <<>> THEN default ELSE field[1]

Undefined == [kind |-> "undefined"]
TextSecret(t) == [kind |-> "string", text |-> t]
ByteSecret(b) == [kind |-> "bytes", bytes |-> b]

\* !secret
Falsy(s) == s.kind = "undefined" \/ (s.kind = "string" /\ s.text = <<>>)

\* variant of the wrapped error: the codec's message alone
InvalidSecretBare(message) == message

MissingSecret == <<"Secret must be provided">>
InvalidSecret(message) == <<"Invalid secret: ">> \o message

\* variant of the counter: rounded to the nearest step
CounterAtRounded(timestamp, period) == (timestamp + 500 * period) \div (1000 * period)

\* Math.floor(timestamp / 1000 / period)
CounterAt(timestamp, period) == timestamp \div (1000 * period)

\* the outcome of generateTOTP and the calls it made: decoded and hotp count
\* its invocations of decodeBase32 and generateHOTP
generateTOTP(s, opts, clock) ==
  LET algorithm == OptionOr(opts.algorithm, "SHA-1")
      digits == OptionOr(opts.digits, 6)
      period == OptionOr(opts.period, 30)
      timestamp == OptionOr(opts.timestamp, clock)
      counter == CounterAt(timestamp, period)
  IN  IF Falsy(s)
      THEN [ok |-> FALSE, error |-> MissingSecret, decoded |-> 0, hotp |-> 0]
      ELSE IF s.kind = "string"
        THEN LET d == decodeBase32(s.text)
             IN  IF d.ok
                 THEN [ok |-> TRUE, counter |-> counter, decoded |-> 1, hotp |-> 1,
                       code |-> generateHOTP(d.bytes, counter, algorithm, digits)]
                 ELSE [ok |-> FALSE, error |-> InvalidSecret(d.error),
                       decoded |-> 1, hotp |-> 0]
      ELSE [ok |-> TRUE, counter |-> counter, decoded |-> 0, hotp |-> 1,
            code |-> generateHOTP(s.bytes, counter, algorithm, digits)]

(***************************************************************************)
(* totp: generateRandomSecret.                                             *)
(***************************************************************************)
base32Chars ==
  <<"A", "B", "C", "D", "E", "F", "G", "H", "I", "J", "K", "L", "M", "N", "O", "P",
    "Q", "R", "S", "T", "U", "V", "W", "X", "Y", "Z", "2", "3", "4", "5", "6", "7">>

\* variant of the symbol choice: the top five bits of the byte
SymbolOfTopBits(byte) == base32Chars[(byte \div 8) + 1]

\* base32Chars[randomBytes[i] % base32Chars.length]
SymbolOf(byte) == base32Chars[(byte % Len(base32Chars)) + 1]

\* new Uint8Array(length) with a negative length
RangeError == <<"Invalid typed array length">>

\* generateRandomSecret(length) when the random source fills the array with
\* randomBytes; the array is never allocated for a negative length
generateRandomSecret(length, randomBytes) ==
  IF length < 0
  THEN [ok |-> FALSE, error |-> RangeError]
  ELSE [ok |-> TRUE, text |-> [k \in 1..length |-> SymbolOf(randomBytes[k])]]

(***************************************************************************)
(* The inputs explored.                                                    *)
(***************************************************************************)
Algorithms == {"SHA-1", "SHA-256", "SHA-512"}

Timestamps == {0, 1999, 2000, 30000}

\* Date.now() when the timestamp option is absent
Clocks == {1999, 30000}

OptionBags ==
  [algorithm : {<<>>} \cup {<<a>> : a \in Algorithms},
   digits : {<<>>, <<1>>, <<2>>},
   period : {<<>>, <<1>>, <<2>>},
   timestamp : {<<>>} \cup {<<t>> : t \in Timestamps},
   window : {<<>>} \cup {<<w>> : w \in 0..MaxWindow}]

GenerateBags == {o \in OptionBags : o.window = <<>>}

Secrets ==
  {Undefined, ByteSecret(<<>>), ByteSecret(<<72, 101>>)}
    \cup {TextSecret(t) : t \in {<<>>, <<" ">>, <<"=">>, <<"!">>, <<"G", "E">>,
                                 <<"A", "=", "A">>, <<"j", " ", "b", "=">>}}

VerifySecrets ==
  {Undefined, ByteSecret(<<>>), TextSecret(<<"!">>), TextSecret(<<"G", "E">>),
   TextSecret(<<"j", " ", "b", "=">>)}

ClocksFor(opts) == IF opts.timestamp = <<>> THEN Clocks ELSE {opts.timestamp[1]}

\* variants of the loop: starting at offset 0, stopping one offset early,
\* running one offset further
LoopStartZero(window) == 0
LoopContinuesStrict(j, window) == j < window
LoopContinuesWide(j, window) == j <= window + 1

\* for (let i = -window; i <= window; i++)
LoopStart(window) == 0 - window
LoopContinues(j, window) == j <= window

\* variants of checkTime: the period taken as milliseconds, the offset negated
CheckTimeSeconds(timestamp, j, period) == timestamp + j * period
CheckTimeReversed(timestamp, j, period) == timestamp - j * period * 1000

\* const checkTime = timestamp + i * period * 1000
CheckTime(timestamp, j, period) == timestamp + j * period * 1000

\* the options verifyTOTP hands to generateTOTP for offset j
ProbeOptions(opts, clock, j) ==
  LET algorithm == OptionOr(opts.algorithm, "SHA-1")
      digits == OptionOr(opts.digits, 6)
      period == OptionOr(opts.period, 30)
      timestamp == OptionOr(opts.timestamp, clock)
  IN  [algorithm |-> <<algorithm>>, digits |-> <<digits>>, period |-> <<period>>,
       timestamp |-> <<CheckTime(timestamp, j, period)>>, window |-> <<>>]

\* the tokens presented to verifyTOTP: the codes of the counters around the
\* current one, damaged copies of the current code, and the empty string
TokensFor(s, opts, clock) ==
  LET window == OptionOr(opts.window, 1)
      gen(j) == generateTOTP(s, ProbeOptions(opts, clock, j), clock)
      codes == IF gen(0).ok THEN {gen(j).code : j \in (0 - window - 1)..(window + 1)}
               ELSE {<<"0">>, <<"0", "0", "0", "0", "0", "0">>}
      cur == IF gen(0).ok THEN gen(0).code ELSE <<"0">>
  IN  codes \cup {<<>>, Tail(cur), cur \o <<"0">>,
                  SubSeq(cur, 1, Len(cur) - 1) \o <<"x">>, <<"-">> \o Tail(cur)}

CodecChars == {"A", "b", "7", " ", "=", "!"}

RECURSIVE TextsUpTo(_)
TextsUpTo(n) ==
  IF n = 0 THEN {<<>>}
  ELSE LET shorter == TextsUpTo(n - 1)
       IN  shorter \cup {Append(t, ch) : t \in {u \in shorter : Len(u) = n - 1},
                                          ch \in CodecChars}

\* texts long enough for the accumulator to pass 32 bits
LongTexts ==
  {<<"7", "7", "7", "7", "7", "7", "7", "7">>,
   <<"J", "B", "S", "W", "Y", "3", "D", "P", "E", "H", "P", "K", "3", "P", "X", "P">>,
   <<"7", "A", "7", "A", "7", "A", "7", "A", "7", "A", "7">>}

CodecTexts ==
  TextsUpTo(MaxTextLen) \cup {<<"sz">>, <<"J", "B", "S", "W", "Y">>} \cup LongTexts

\* the length argument of generateRandomSecret: absent, or a number
LengthArgs == {<<>>} \cup {<<n>> : n \in -1..MaxSecretLen}

RandomByteSamples == {0, 25, 26, 31, 32, 57, 255}

\* what the random source may write into an array of n bytes: every
\* sequence of sample bytes for a short array, a few sequences for a long one
RandomFill(n) ==
  IF n <= 0 THEN {<<>>}
  ELSE IF n <= MaxSecretLen THEN [1..n -> RandomByteSamples]
  ELSE {[k \in 1..n |-> (b + 37 * k) % 256] : b \in RandomByteSamples}

(***************************************************************************)
(* The library as a state machine: one call at a time.                     *)
(***************************************************************************)
NoOptions ==
  [algorithm |-> <<>>, digits |-> <<>>, period |-> <<>>, timestamp |-> <<>>,
   window |-> <<>>]

Init ==
  /\ pc = "idle"
  /\ op = "none"
  /\ token = <<>>
  /\ secret = Undefined
  /\ options = NoOptions
  /\ now = 0
  /\ i = 0
  /\ probed = <<>>
  /\ totpCalls = 0
  /\ hotpCalls = 0
  /\ decodeCalls = 0
  /\ result = [none |-> TRUE]
  /\ args = [none |-> TRUE]

\* decodeBase32(text)
CallDecode(t) ==
  /\ pc = "idle"
  /\ pc' = "done"
  /\ op' = "decodeBase32"
  /\ secret' = TextSecret(t)
  /\ decodeCalls' = 1
  /\ result' = LET d == decodeBase32(t)
               IN  IF d.ok THEN [bytes |-> d.bytes] ELSE [thrown |-> d.error]
  /\ UNCHANGED <<token, options, now, i, probed, totpCalls, hotpCalls, args>>

\* generateTOTP(s, opts) called at time clock
CallGenerate(s, opts, clock) ==
  /\ pc = "idle"
  /\ pc' = "done"
  /\ op' = "generateTOTP"
  /\ secret' = s
  /\ options' = opts
  /\ now' = clock
  /\ LET g == generateTOTP(s, opts, clock)
     IN  /\ totpCalls' = 1
         /\ hotpCalls' = g.hotp
         /\ decodeCalls' = g.decoded
         /\ result' = IF g.ok THEN [code |-> g.code] ELSE [thrown |-> g.error]
  /\ UNCHANGED <<token, i, probed, args>>

\* /^\d+$/.test(tok)
AllDigits(tok) == tok # <<>> /\ \A k \in 1..Len(tok) : IsDigit(tok[k])

\* variant of the format check: the empty token alone
FormatRejectsEmptyOnly(tok, digits) == tok = <<>>

\* variant of the format check: the length alone
FormatRejectsLengthOnly(tok, digits) == tok = <<>> \/ Len(tok) # digits

\* the format check of verifyTOTP: TRUE when the token is rejected outright
FormatRejects(tok, digits) == tok = <<>> \/ Len(tok) # digits \/ ~AllDigits(tok)

\* verifyTOTP(tok, s, opts) called at time clock: the format check, then the
\* loop variable is set to -window
CallVerify(tok, s, opts, clock) ==
  /\ pc = "idle"
  /\ op' = "verifyTOTP"
  /\ token' = tok
  /\ secret' = s
  /\ options' = opts
  /\ now' = clock
  /\ IF FormatRejects(tok, OptionOr(opts.digits, 6))
     THEN /\ pc' = "done"
          /\ result' = [valid |-> FALSE]
          /\ UNCHANGED i
     ELSE /\ pc' = "loop"
          /\ i' = LoopStart(OptionOr(opts.window, 1))
          /\ UNCHANGED result
  /\ UNCHANGED <<probed, totpCalls, hotpCalls, decodeCalls, args>>

\* one iteration of the window loop: generateTOTP at checkTime, then the
\* comparison with the token
VerifyProbe ==
  /\ pc = "loop"
  /\ LoopContinues(i, OptionOr(options.window, 1))
  /\ LET g == generateTOTP(secret, ProbeOptions(options, now, i), now)
     IN  /\ totpCalls' = totpCalls + 1
         /\ hotpCalls' = hotpCalls + g.hotp
         /\ decodeCalls' = decodeCalls + g.decoded
         /\ IF ~g.ok
            THEN /\ pc' = "done"
                 /\ result' = [thrown |-> g.error]
                 /\ UNCHANGED <<i, probed>>
            ELSE /\ probed' = Append(probed, [offset |-> i, counter |-> g.counter])
                 /\ IF g.code = token
                    THEN /\ pc' = "done"
                         /\ result' = [valid |-> TRUE, delta |-> i]
                         /\ UNCHANGED i
                    ELSE /\ pc' = "loop"
                         /\ i' = i + 1
                         /\ UNCHANGED result
  /\ UNCHANGED <<op, token, secret, options, now, args>>

\* the loop ends without a match
VerifyExhausted ==
  /\ pc = "loop"
  /\ ~LoopContinues(i, OptionOr(options.window, 1))
  /\ pc' = "done"
  /\ result' = [valid |-> FALSE]
  /\ UNCHANGED <<op, token, secret, options, now, i, probed, totpCalls, hotpCalls,
                 decodeCalls, args>>

\* the call has returned or thrown; the next call starts afresh
Return ==
  /\ pc = "done"
  /\ pc' = "idle"
  /\ op' = "none"
  /\ token' = <<>>
  /\ secret' = Undefined
  /\ options' = NoOptions
  /\ now' = 0
  /\ i' = 0
  /\ probed' = <<>>
  /\ totpCalls' = 0
  /\ hotpCalls' = 0
  /\ decodeCalls' = 0
  /\ result' = [none |-> TRUE]
  /\ args' = [none |-> TRUE]

(***************************************************************************)
(* cli: parseOptions.  An argument is a string; parseInt gives <<>> for    *)
(* NaN and <<n>> for the number n.                                         *)
(***************************************************************************)
\* arg.startsWith('--')
StartsWithDashes(arg) == Len(arg) >= 2 /\ arg[1] = "-" /\ arg[2] = "-"

\* s.split('=')
RECURSIVE SplitEquals(_)
SplitEquals(s) ==
  IF \E k \in 1..Len(s) : s[k] = "="
  THEN LET k == CHOOSE j \in 1..Len(s) : s[j] = "=" /\ \A m \in 1..(j - 1) : s[m] # "="
       IN  <<SubSeq(s, 1, k - 1)>> \o SplitEquals(SubSeq(s, k + 1, Len(s)))
  ELSE <<s>>

RECURSIVE TrimStart(_)
TrimStart(s) ==
  IF s # <<>> /\ Head(s) \in WhitespaceChars THEN TrimStart(Tail(s)) ELSE s

\* the longest prefix of decimal digits
RECURSIVE DigitPrefix(_)
DigitPrefix(s) ==
  IF s # <<>> /\ IsDigit(Head(s)) THEN <<Head(s)>> \o DigitPrefix(Tail(s)) ELSE <<>>

RECURSIVE DigitsValue(_)
DigitsValue(ds) ==
  IF ds = <<>> THEN 0
  ELSE DigitsValue(SubSeq(ds, 1, Len(ds) - 1)) * 10
         + (CHOOSE d \in 0..9 : DigitChars[d + 1] = ds[Len(ds)])

\* parseInt(text, 10)
parseInt(text) ==
  LET t == TrimStart(text)
      signed == t # <<>> /\ Head(t) \in {"-", "+"}
      ds == DigitPrefix(IF signed THEN Tail(t) ELSE t)
  IN  IF ds = <<>> THEN <<>>
      ELSE IF signed /\ Head(t) = "-" THEN <<0 - DigitsValue(ds)>>
      ELSE <<DigitsValue(ds)>>

KeyAlgorithm == <<"a", "l", "g", "o", "r", "i", "t", "h", "m">>
KeyDigits == <<"d", "i", "g", "i", "t", "s">>
KeyPeriod == <<"p", "e", "r", "i", "o", "d">>
KeyWindow == <<"w", "i", "n", "d", "o", "w">>
KeyIssuer == <<"i", "s", "s", "u", "e", "r">>
KeyAccount == <<"a", "c", "c", "o", "u", "n", "t">>

\* ['SHA-1', 'SHA-256', 'SHA-512'].includes(value): <<name>> when included
AlgorithmNamed(value) ==
  CASE value = <<"S", "H", "A", "-", "1">> -> <<"SHA-1">>
    [] value = <<"S", "H", "A", "-", "2", "5", "6">> -> <<"SHA-256">>
    [] value = <<"S", "H", "A", "-", "5", "1", "2">> -> <<"SHA-512">>
    [] OTHER -> <<>>

\* !isNaN(d) && [6, 8].includes(d)
DigitsAllowed(d) == d # <<>> /\ d[1] \in {6, 8}

\* !(isNaN(n) || n <= 0)
Positive(n) == n # <<>> /\ n[1] > 0

CliNoOptions ==
  [algorithm |-> <<>>, digits |-> <<>>, period |-> <<>>, timestamp |-> <<>>,
   window |-> <<>>, issuer |-> <<>>, account |-> <<>>]

\* the loop of parseOptions from argument k on: the options collected, or
\* the message printed before process.exit(1)
RECURSIVE parseOptions(_, _, _)
parseOptions(rest, k, opts) ==
  IF k > Len(rest) THEN [ok |-> TRUE, options |-> opts]
  ELSE IF ~StartsWithDashes(rest[k]) THEN parseOptions(rest, k + 1, opts)
  ELSE
    LET parts == SplitEquals(SubSeq(rest[k], 3, Len(rest[k])))
        key == parts[1]
        hasValue == Len(parts) >= 2 /\ parts[2] # <<>>
        value == parts[2]
    IN  IF key = <<>> \/ ~hasValue THEN parseOptions(rest, k + 1, opts)
        ELSE IF key = KeyAlgorithm
          THEN IF AlgorithmNamed(value) # <<>>
               THEN parseOptions(rest, k + 1,
                                 [opts EXCEPT !.algorithm = AlgorithmNamed(value)])
               ELSE [ok |-> FALSE, error |-> <<"Invalid algorithm: ">> \o value]
        ELSE IF key = KeyDigits
          THEN IF DigitsAllowed(parseInt(value))
               THEN parseOptions(rest, k + 1, [opts EXCEPT !.digits = parseInt(value)])
               ELSE [ok |-> FALSE, error |-> <<"Digits must be 6 or 8">>]
        ELSE IF key = KeyPeriod
          THEN IF Positive(parseInt(value))
               THEN parseOptions(rest, k + 1, [opts EXCEPT !.period = parseInt(value)])
               ELSE [ok |-> FALSE, error |-> <<"Invalid period: must be a positive number">>]
        ELSE IF key = KeyWindow
          THEN IF Positive(parseInt(value))
               THEN parseOptions(rest, k + 1, [opts EXCEPT !.window = parseInt(value)])
               ELSE [ok |-> FALSE, error |-> <<"Invalid window: must be a positive number">>]
        ELSE IF key = KeyIssuer
          THEN parseOptions(rest, k + 1, [opts EXCEPT !.issuer = <<value>>])
        ELSE IF key = KeyAccount
          THEN parseOptions(rest, k + 1, [opts EXCEPT !.account = <<value>>])
        ELSE parseOptions(rest, k + 1, opts)

\* args.filter(arg => !arg.startsWith('--'))
getNoOptionArgs(rest) == SelectSeq(rest, LAMBDA arg : ~StartsWithDashes(arg))

(***************************************************************************)
(* totp: verifyTOTP as one call, and generateQRCode.                       *)
(***************************************************************************)
RECURSIVE VerifyLoop(_, _, _, _, _)
VerifyLoop(tok, s, opts, clock, j) ==
  IF ~LoopContinues(j, OptionOr(opts.window, 1))
  THEN [ok |-> TRUE, valid |-> FALSE]
  ELSE LET g == generateTOTP(s, ProbeOptions(opts, clock, j), clock)
       IN  IF ~g.ok THEN [ok |-> FALSE, error |-> g.error]
           ELSE IF g.code = tok THEN [ok |-> TRUE, valid |-> TRUE, delta |-> j]
           ELSE VerifyLoop(tok, s, opts, clock, j + 1)

verifyTOTP(tok, s, opts, clock) ==
  IF FormatRejects(tok, OptionOr(opts.digits, 6))
  THEN [ok |-> TRUE, valid |-> FALSE]
  ELSE VerifyLoop(tok, s, opts, clock, LoopStart(OptionOr(opts.window, 1)))

\* encodeURIComponent on the characters that occur in the explored inputs
EncodeChar(ch) ==
  CASE ch = "@" -> <<"%", "4", "0">>
    [] ch = " " -> <<"%", "2", "0">>
    [] ch = ":" -> <<"%", "3", "A">>
    [] OTHER -> <<ch>>

RECURSIVE encodeURIComponent(_)
encodeURIComponent(s) ==
  IF s = <<>> THEN <<>> ELSE EncodeChar(Head(s)) \o encodeURIComponent(Tail(s))

\* generateQRCode(s, {issuer, account}): the URI handed to the renderer, or
\* the error thrown when QRCode.toDataURL fails; the secret is normalized
\* and not decoded
generateQRCode(s, issuer, account, rendered) ==
  LET uri == <<"otpauth://totp/">> \o encodeURIComponent(issuer) \o <<":">>
               \o encodeURIComponent(account) \o <<"?secret=">> \o normalizeSecret(s)
               \o <<"&issuer=">> \o encodeURIComponent(issuer)
  IN  IF rendered THEN [ok |-> TRUE, dataUrl |-> <<"data:image/png;base64,">> \o uri]
      ELSE [ok |-> FALSE, error |-> <<"QR code generation failed">>]

(***************************************************************************)
(* cli: main.  A run ends with an exit code and the lines written to       *)
(* stdout and stderr.                                                      *)
(***************************************************************************)
CmdHelp == <<"h", "e", "l", "p">>
FlagHelp == <<"-", "-", "h", "e", "l", "p">>
CmdGenerate == <<"g", "e", "n", "e", "r", "a", "t", "e">>
CmdVerify == <<"v", "e", "r", "i", "f", "y">>
CmdQrcode == <<"q", "r", "c", "o", "d", "e">>
CmdCreateSecret == <<"c", "r", "e", "a", "t", "e", "-", "s", "e", "c", "r", "e", "t">>

Line(kind, text) == [kind |-> kind, text |-> text]

Exited(code, out, err) == [exit |-> code, stdout |-> out, stderr |-> err]

\* the catch block of main
Caught(message) == Exited(1, <<>>, <<Line("error", <<"Error: ">> \o message)>>)

\* list[k], <<>> standing for undefined as well as for the empty string
ArgAt(list, k) == IF Len(list) >= k THEN list[k] ELSE <<>>

mainGenerate(noOptionArgs, opts, clock) ==
  IF ArgAt(noOptionArgs, 1) = <<>>
  THEN Exited(1, <<>>, <<Line("error", <<"Secret is required">>)>>)
  ELSE LET g == generateTOTP(TextSecret(noOptionArgs[1]), opts, clock)
       IN  IF g.ok THEN Exited(0, <<Line("code", g.code)>>, <<>>)
           ELSE Caught(g.error)

mainVerify(noOptionArgs, opts, clock) ==
  IF ArgAt(noOptionArgs, 1) = <<>> \/ ArgAt(noOptionArgs, 2) = <<>>
  THEN Exited(1, <<>>, <<Line("error", <<"Code and secret are required">>)>>)
  ELSE LET v == verifyTOTP(noOptionArgs[1], TextSecret(noOptionArgs[2]), opts, clock)
       IN  IF ~v.ok THEN Caught(v.error)
           ELSE IF v.valid
             THEN Exited(0, <<Line("valid", <<"Valid (time drift: ">>
                                \o NumberToString(v.delta) \o <<" periods)">>)>>, <<>>)
           ELSE Exited(1, <<Line("invalid", <<"Invalid code">>)>>, <<>>)

mainQrcode(noOptionArgs, opts, rendered, written) ==
  IF ArgAt(noOptionArgs, 1) = <<>>
  THEN Exited(1, <<>>, <<Line("error", <<"Secret is required">>)>>)
  ELSE LET outputFile == ArgAt(noOptionArgs, 2)
           q == generateQRCode(noOptionArgs[1], OptionOr(opts.issuer, <<"Totpify">>),
                               OptionOr(opts.account, <<"user">>), rendered)
       IN  IF ~q.ok THEN Caught(q.error)
           ELSE IF outputFile = <<>> THEN Exited(0, <<Line("dataUrl", q.dataUrl)>>, <<>>)
           ELSE IF written
             THEN Exited(0, <<Line("saved", <<"QR code saved to ">> \o outputFile)>>, <<>>)
           ELSE Caught(<<"writeFileSync failed">>)

\* the length read by create-secret
CliLength(noOptionArgs) ==
  IF ArgAt(noOptionArgs, 1) # <<>> THEN parseInt(noOptionArgs[1]) ELSE <<20>>

mainCreateSecret(noOptionArgs, fill) ==
  IF ~Positive(CliLength(noOptionArgs))
  THEN Exited(1, <<>>, <<Line("error", <<"Length must be a positive number">>)>>)
  ELSE LET g == generateRandomSecret(CliLength(noOptionArgs)[1], fill)
       IN  IF g.ok THEN Exited(0, <<Line("secret", g.text)>>, <<>>)
           ELSE Caught(g.error)

\* main() for process.argv.slice(2) = argv, Date.now() = clock and the
\* outcomes env of the QR renderer, the file system and the random source
main(argv, clock, env) ==
  LET command == ArgAt(argv, 1)
  IN  IF command = <<>> \/ command = CmdHelp \/ command = FlagHelp
      THEN Exited(0, <<Line("usage", <<"Usage:">>)>>, <<>>)
      ELSE
        LET noOptionArgs == getNoOptionArgs(Tail(argv))
            parsed == parseOptions(Tail(argv), 1, CliNoOptions)
        IN  IF ~parsed.ok THEN Exited(1, <<>>, <<Line("error", parsed.error)>>)
            ELSE CASE command = CmdGenerate ->
                        mainGenerate(noOptionArgs, parsed.options, clock)
                   [] command = CmdVerify ->
                        mainVerify(noOptionArgs, parsed.options, clock)
                   [] command = CmdQrcode ->
                        mainQrcode(noOptionArgs, parsed.options, env.rendered,
                                   env.written)
                   [] command = CmdCreateSecret ->
                        mainCreateSecret(noOptionArgs, env.fill)
                   [] OTHER ->
                        Exited(1, <<Line("usage", <<"Usage:">>)>>,
                               <<Line("error", <<"Unknown command: ">> \o command)>>)

(***************************************************************************)
(* The direct calls of generateHOTP explored.                              *)
(***************************************************************************)
\* 0, 1, 255, 256, 2^24 - 1, 2^24, 2^31, 2^32 - 1, 2^32, 2^32 + 1, 2^40,
\* 2^53 - 1
HotpCounters ==
  {WideCounter(0, 0), WideCounter(0, 1), WideCounter(0, 255), WideCounter(0, 256),
   WideCounter(0, 16777215), WideCounter(1, 0), WideCounter(128, 0),
   WideCounter(255, 16777215), WideCounter(256, 0), WideCounter(256, 1),
   WideCounter(65536, 0), WideCounter(536870911, 16777215)}

HotpKeys == {<<72, 101>>}

HotpDigits == {1, 6, 8, 10}

\* what the keyed hash may return: digests of the length of the hash
DigestSamples(n) ==
  {[j \in 1..n |-> b] : b \in {0, 127, 128, 255}}
    \cup {[j \in 1..n |-> (j * 37 + b) % 256] : b \in {0, 10, 15}}

HmacOutcomes(algorithm, key, message) ==
  {Hmac(algoMap(algorithm), key, message)}
    \cup DigestSamples(DigestLength(algoMap(algorithm)))

(***************************************************************************)
(* The command lines explored.                                             *)
(***************************************************************************)
Opt(key, value) == <<"-", "-">> \o key \o <<"=">> \o value

OptionArgs ==
  {Opt(KeyAlgorithm, <<"S", "H", "A", "-", "2", "5", "6">>),
   Opt(KeyAlgorithm, <<"M", "D", "5">>),
   Opt(KeyAlgorithm, <<>>),
   Opt(KeyDigits, <<"8">>), Opt(KeyDigits, <<"9">>), Opt(KeyDigits, <<"6", "x">>),
   Opt(KeyPeriod, <<"1">>), Opt(KeyPeriod, <<"0">>), Opt(KeyPeriod, <<"-", "3", "0">>),
   Opt(KeyPeriod, <<"x">>),
   Opt(KeyWindow, <<"2">>), Opt(KeyWindow, <<"0">>),
   Opt(KeyIssuer, <<"a", "@", "b">>),
   <<"-", "-", "v">>}

OptionLists ==
  {<<>>} \cup {<<o>> : o \in OptionArgs}
    \cup {<<Opt(KeyDigits, <<"8">>), Opt(KeyDigits, <<"9">>)>>,
          <<Opt(KeyAlgorithm, <<"M", "D", "5">>), Opt(KeyPeriod, <<"1">>)>>}

PositionalSamples ==
  {<<"G", "E">>, <<"!">>, <<"2">>, <<"0">>, <<"-", "5">>, <<"5", "x">>}

PositionalLists ==
  {<<>>} \cup {<<a>> : a \in PositionalSamples}
    \cup {<<a, b>> : a \in PositionalSamples, b \in PositionalSamples}

Commands ==
  {CmdHelp, FlagHelp, CmdGenerate, CmdVerify, CmdQrcode, CmdCreateSecret, <<"x">>}

\* the codes of the secret GE around the time clock under the option lists
\* that parse
CliCodes(clock) ==
  LET bags == {parseOptions(o, 1, CliNoOptions).options :
                 o \in {l \in OptionLists : parseOptions(l, 1, CliNoOptions).ok}}
  IN  {generateTOTP(TextSecret(<<"G", "E">>), ProbeOptions(b, clock, j), clock).code :
         b \in bags, j \in -2..2}

CliArgvs(clock) ==
  {<<>>}
    \cup {<<c>> \o p \o o : c \in Commands, p \in PositionalLists, o \in OptionLists}
    \cup {<<c>> \o o \o p : c \in Commands, p \in PositionalLists, o \in OptionLists}
    \cup {<<CmdVerify, code, <<"G", "E">>>> \o o :
            code \in CliCodes(clock), o \in OptionLists}

\* Date.now() at the time of the run
CliClocks == Clocks

\* the outcomes of the renderer, the file system and the random source that
\* the command line can meet
EnvsFor(argv) ==
  LET command == ArgAt(argv, 1)
      length == CliLength(getNoOptionArgs(Tail(argv)))
  IN  IF command = CmdQrcode
      THEN [rendered : BOOLEAN, written : BOOLEAN, fill : {<<>>}]
      ELSE IF command = CmdCreateSecret /\ Positive(length)
        THEN [rendered : {TRUE}, written : {TRUE}, fill : RandomFill(length[1])]
      ELSE [rendered : {TRUE}, written : {TRUE}, fill : {<<>>}]

\* generateRandomSecret(length), the length absent or given
CallRandomSecret(lengthArg, fill) ==
  /\ pc = "idle"
  /\ pc' = "done"
  /\ op' = "generateRandomSecret"
  /\ args' = [length |-> lengthArg, randomBytes |-> fill]
  /\ result' = LET g == generateRandomSecret(OptionOr(lengthArg, 20), fill)
               IN  IF g.ok THEN [text |-> g.text] ELSE [thrown |-> g.error]
  /\ UNCHANGED <<token, secret, options, now, i, probed, totpCalls, hotpCalls,
                 decodeCalls>>

\* generateHOTP(key, counter, algorithm, digits), the keyed hash returning
\* digest
CallHotp(key, w, algorithm, digits, digest) ==
  /\ pc = "idle"
  /\ pc' = "done"
  /\ op' = "generateHOTP"
  /\ args' = [key |-> key, counter |-> w, algorithm |-> algorithm, digits |-> digits]
  /\ hotpCalls' = 1
  /\ result' = generateHOTPWide(key, w, algorithm, digits, digest)
  /\ UNCHANGED <<token, secret, options, now, i, probed, totpCalls, decodeCalls>>

\* one run of the command line tool
CallCli(argv, clock, env) ==
  /\ pc = "idle"
  /\ pc' = "done"
  /\ op' = "cli"
  /\ args' = [argv |-> argv, env |-> env]
  /\ now' = clock
  /\ result' = main(argv, clock, env)
  /\ UNCHANGED <<token, secret, options, i, probed, totpCalls, hotpCalls,
                 decodeCalls>>

Decode == pc = "idle" /\ \E t \in CodecTexts : CallDecode(t)

Hotp ==
  /\ pc = "idle"
  /\ \E key \in HotpKeys, w \in HotpCounters, algorithm \in Algorithms,
        digits \in HotpDigits :
       \E digest \in HmacOutcomes(algorithm, key, CounterBufferWide(w)) :
         CallHotp(key, w, algorithm, digits, digest)

Cli ==
  /\ pc = "idle"
  /\ \E clock \in CliClocks :
       \E argv \in CliArgvs(clock) :
         \E env \in EnvsFor(argv) : CallCli(argv, clock, env)

RandomSecret ==
  /\ pc = "idle"
  /\ \E lengthArg \in LengthArgs :
       \E fill \in RandomFill(OptionOr(lengthArg, 20)) :
         CallRandomSecret(lengthArg, fill)

Generate ==
  /\ pc = "idle"
  /\ \E s \in Secrets, opts \in GenerateBags :
       \E clock \in ClocksFor(opts) : CallGenerate(s, opts, clock)

Verify ==
  /\ pc = "idle"
  /\ \E s \in VerifySecrets, opts \in OptionBags :
       \E clock \in ClocksFor(opts) :
         \E tok \in TokensFor(s, opts, clock) : CallVerify(tok, s, opts, clock)

Next ==
  \/ Decode
  \/ Generate
  \/ Verify
  \/ VerifyProbe
  \/ VerifyExhausted
  \/ RandomSecret
  \/ Hotp
  \/ Cli
  \/ Return

Spec == Init /\ [][Next]_vars

(***************************************************************************)
(* Vocabulary of the properties: the resolved options of the call in       *)
(* progress and the codes of the counters around the current one.          *)
(***************************************************************************)
Window == OptionOr(options.window, 1)
Digits == OptionOr(options.digits, 6)
Period == OptionOr(options.period, 30)
Algorithm == OptionOr(options.algorithm, "SHA-1")
Timestamp == OptionOr(options.timestamp, now)

\* c = floor(timestamp / 1000 / period)
CurrentCounter == Timestamp \div (1000 * Period)

\* the secret yields key bytes: it is raw bytes, or text that decodes
SecretUsable ==
  \/ secret.kind = "bytes"
  \/ secret.kind = "string" /\ secret.text # <<>> /\ decodeBase32(secret.text).ok

KeyBytes == IF secret.kind = "bytes" THEN secret.bytes ELSE decodeBase32(secret.text).bytes

\* the code of counter c under the call's secret, algorithm and digits
CodeOf(c) == generateHOTP(KeyBytes, c, Algorithm, Digits)

\* generate(secret, {timestamp: t}) with the call's other options
GeneratedAt(t) ==
  generateTOTP(secret, [options EXCEPT !.timestamp = <<t>>, !.window = <<>>], now).code

\* exactly `digits` decimal characters
WellFormed ==
  /\ Len(token) = Digits
  /\ \A k \in 1..Len(token) :
       token[k] \in {"0", "1", "2", "3", "4", "5", "6", "7", "8", "9"}

VerifyDone == op = "verifyTOTP" /\ pc = "done"
Accepted == "valid" \in DOMAIN result /\ result.valid
Rejected == result = [valid |-> FALSE]

\* C1: verifyTOTP returns valid:true iff the token is well-formed and equals the
\* code of some counter in [c-w, c+w]; the k-th counter it compares against is
\* c-w+k-1, reached from offset -w+k-1, and a rejected well-formed token has been
\* compared against all of c-w .. c+w.
C1_AcceptsExactlyWindowCodes ==
  (VerifyDone /\ SecretUsable) =>
    /\ Accepted <=>
         (WellFormed /\ \E c \in (CurrentCounter - Window)..(CurrentCounter + Window) :
                          token = CodeOf(c))
    /\ \A k \in 1..Len(probed) :
         /\ probed[k].offset = k - 1 - Window
         /\ probed[k].counter = CurrentCounter + probed[k].offset
    /\ (WellFormed /\ ~Accepted) => Len(probed) = 2 * Window + 1

C1_Witness ==
  /\ VerifyDone /\ SecretUsable /\ Accepted
  /\ Window = 2 /\ result.delta = 1 /\ CurrentCounter = 1
  /\ Len(probed) = 4

\* C2 as stated: the code of the counter window+1 steps before or after the
\* current one is always rejected.
C2_FarCodeAlwaysRejected ==
  (VerifyDone /\ SecretUsable
     /\ \E d \in {-1, 1} : token = GeneratedAt(Timestamp + d * (Window + 1) * Period * 1000))
    => Rejected

\* C2 amended: that code is rejected unless it is also the code of a counter in
\* [c-w, c+w]; when accepted, the reported delta lies in [-w, w].
C2_FarCodeRejectedUnlessCollision ==
  (VerifyDone /\ SecretUsable
     /\ \E d \in {-1, 1} : token = GeneratedAt(Timestamp + d * (Window + 1) * Period * 1000))
    => /\ (\A c \in (CurrentCounter - Window)..(CurrentCounter + Window) :
             CodeOf(c) # token) => Rejected
       /\ Accepted => result.delta \in (0 - Window)..Window
       /\ Accepted \/ Rejected

C2_Witness ==
  /\ VerifyDone /\ SecretUsable /\ Rejected /\ Window = 1
  /\ token = GeneratedAt(Timestamp - 2 * Period * 1000)
  /\ Len(probed) = 3

\* C3 as stated: a code verified at the instant it was generated for, with the
\* default window, yields exactly {valid: true, delta: 0}.
C3_RoundTripDeltaZero ==
  (VerifyDone /\ SecretUsable /\ options.window = <<>> /\ token = GeneratedAt(Timestamp))
    => result = [valid |-> TRUE, delta |-> 0]

\* C3 amended: it yields valid:true, with delta 0 unless the code of the previous
\* counter is the same code, and then delta -1.
C3_RoundTripValid ==
  (VerifyDone /\ SecretUsable /\ options.window = <<>> /\ token = GeneratedAt(Timestamp))
    => result = [valid |-> TRUE,
                 delta |-> IF CodeOf(CurrentCounter - 1) = token THEN -1 ELSE 0]

C3_Witness ==
  /\ VerifyDone /\ SecretUsable /\ options.window = <<>>
  /\ token = GeneratedAt(Timestamp)
  /\ Algorithm = "SHA-512"
  /\ result = [valid |-> TRUE, delta |-> 0]

\* C4 as stated: the previous period's code verifies with window 1 as delta -1
\* and with window 0 as valid:false; the next period's code verifies with
\* window 1 as delta 1.
C4_AdjacentDrift ==
  (VerifyDone /\ SecretUsable) =>
    /\ (Window = 1 /\ token = GeneratedAt(Timestamp - Period * 1000))
         => result = [valid |-> TRUE, delta |-> -1]
    /\ (Window = 0 /\ token = GeneratedAt(Timestamp - Period * 1000)) => Rejected
    /\ (Window = 1 /\ token = GeneratedAt(Timestamp + Period * 1000))
         => result = [valid |-> TRUE, delta |-> 1]

\* the smallest offset in [-w, w] whose code is the token
FirstMatch ==
  CHOOSE j \in (0 - Window)..Window :
    /\ CodeOf(CurrentCounter + j) = token
    /\ \A k \in (0 - Window)..(j - 1) : CodeOf(CurrentCounter + k) # token

\* C4 amended: the previous period's code verifies with window 1 as delta -1; with
\* window 0 it is rejected unless it is also the current code, and then accepted
\* with delta 0; the next period's code verifies with window 1 as valid:true with
\* the smallest matching offset, which is 1 unless the previous or the current
\* code is the same code.
C4_AdjacentDriftFirstMatch ==
  (VerifyDone /\ SecretUsable) =>
    /\ (Window = 1 /\ token = GeneratedAt(Timestamp - Period * 1000))
         => result = [valid |-> TRUE, delta |-> -1]
    /\ (Window = 0 /\ token = GeneratedAt(Timestamp - Period * 1000))
         => IF CodeOf(CurrentCounter) = token
            THEN result = [valid |-> TRUE, delta |-> 0]
            ELSE Rejected
    /\ (Window = 1 /\ token = GeneratedAt(Timestamp + Period * 1000))
         => /\ result = [valid |-> TRUE, delta |-> FirstMatch]
            /\ (CodeOf(CurrentCounter - 1) # token /\ CodeOf(CurrentCounter) # token)
                 => result.delta = 1

C4_Witness ==
  /\ VerifyDone /\ SecretUsable /\ Window = 1
  /\ token = GeneratedAt(Timestamp + Period * 1000)
  /\ result = [valid |-> TRUE, delta |-> 1]
  /\ Len(probed) = 3

\* C5: offsets are probed in the order -window, -window+1, ...; on valid:true
\* delta is the smallest offset in [-window, window] whose code is the token and
\* no offset above delta has been evaluated; on valid:false there is no delta.
C5_FirstMatchWins ==
  (op = "verifyTOTP" /\ SecretUsable) =>
    /\ \A k \in 1..Len(probed) : probed[k].offset = k - 1 - Window
    /\ (pc = "done" /\ Accepted) =>
         /\ DOMAIN result = {"valid", "delta"}
         /\ result.delta \in (0 - Window)..Window
         /\ CodeOf(CurrentCounter + result.delta) = token
         /\ \A j \in (0 - Window)..(result.delta - 1) :
              CodeOf(CurrentCounter + j) # token
         /\ Len(probed) = result.delta + Window + 1
         /\ totpCalls = Len(probed)
    /\ (pc = "done" /\ ~Accepted) => DOMAIN result = {"valid"}

\* two offsets of the window carry the token and the lower one is reported
C5_Witness ==
  /\ VerifyDone /\ SecretUsable /\ Accepted
  /\ result.delta < Window
  /\ \E j \in (result.delta + 1)..Window : CodeOf(CurrentCounter + j) = token

\* C6: an empty, wrong-length or non-digit token is answered {valid: false} with
\* no generateTOTP or generateHOTP invocation, and a call that has invoked either
\* has a well-formed token.
C6_FormatRejectBeforeHashing ==
  (op = "verifyTOTP") =>
    /\ (pc = "done" /\ ~WellFormed) =>
         /\ Rejected
         /\ totpCalls = 0 /\ hotpCalls = 0 /\ decodeCalls = 0 /\ probed = <<>>
    /\ (totpCalls > 0 \/ hotpCalls > 0 \/ pc = "loop") => WellFormed

C6_Witness ==
  /\ VerifyDone /\ SecretUsable /\ Rejected /\ totpCalls = 0
  /\ Len(token) = Digits /\ ~WellFormed

GenerateDone == op = "generateTOTP" /\ pc = "done"

\* an empty or absent secret in any representation
EmptyOrAbsentSecret ==
  \/ secret.kind = "undefined"
  \/ secret.kind = "string" /\ secret.text = <<>>
  \/ secret.kind = "bytes" /\ secret.bytes = <<>>

\* C7: generateTOTP fails with 'Secret must be provided' for the empty string, an
\* absent secret and a byte sequence of length 0, without returning a code or
\* invoking generateHOTP.
C7_EmptySecretIsMissingSecret ==
  (GenerateDone /\ EmptyOrAbsentSecret) =>
    /\ result = [thrown |-> <<"Secret must be provided">>]
    /\ hotpCalls = 0

\* every character is whitespace or '='
OnlyWhitespaceOrPadding(t) == \A k \in 1..Len(t) : t[k] \in WhitespaceChars \cup {"="}

\* C8: for a non-empty text secret generateTOTP fails exactly when decodeBase32
\* fails on the text, with 'Invalid secret: ' followed by the codec's message
\* (the empty-string message for whitespace or padding only, the invalid
\* character message otherwise) and without any HOTP computation; a raw-bytes
\* secret never reaches the decoder.
C8_InvalidSecretWrapsDecodeFailure ==
  /\ (GenerateDone /\ secret.kind = "string" /\ secret.text # <<>>) =>
       LET d == decodeBase32(secret.text)
       IN  /\ ("thrown" \in DOMAIN result) <=> ~d.ok
           /\ ~d.ok =>
                /\ result.thrown = <<"Invalid secret: ">> \o d.error
                /\ result.thrown =
                     <<"Invalid secret: ",
                       IF OnlyWhitespaceOrPadding(secret.text)
                       THEN "Empty Base32 string"
                       ELSE "Invalid base32 character in key">>
                /\ hotpCalls = 0
           /\ d.ok => ("code" \in DOMAIN result /\ hotpCalls = 1)
           /\ decodeCalls = 1
  /\ (op \in {"generateTOTP", "verifyTOTP"} /\ secret.kind = "bytes") =>
       /\ decodeCalls = 0
       /\ "thrown" \notin DOMAIN result

C8_Witness ==
  /\ GenerateDone
  /\ secret = TextSecret(<<"A", "=", "A">>)
  /\ result = [thrown |-> <<"Invalid secret: ", "Invalid base32 character in key">>]
  /\ hotpCalls = 0

DecodeDone == op = "decodeBase32" /\ pc = "done"

\* what decodeBase32 does on a text: the bytes returned or the message thrown
Outcome(t) ==
  LET d == decodeBase32(t)
  IN  IF d.ok THEN [bytes |-> d.bytes] ELSE [thrown |-> d.error]

SwapCase(ch) ==
  CASE ch = "A" -> "a"
    [] ch = "a" -> "A"
    [] ch = "B" -> "b"
    [] ch = "b" -> "B"
    [] ch = "J" -> "j"
    [] ch = "j" -> "J"
    [] OTHER -> ch

\* the texts one edit away from t: one letter in the other case, one whitespace
\* character inserted anywhere, one '=' appended
Variants(t) ==
  {[t EXCEPT ![k] = SwapCase(t[k])] : k \in 1..Len(t)}
    \cup {SubSeq(t, 1, k) \o <<ws>> \o SubSeq(t, k + 1, Len(t)) :
            k \in 0..Len(t), ws \in WhitespaceChars}
    \cup {t \o <<"=">>}

\* C9: a valid Base32 text decodes to the same bytes as its normalized form and
\* as every text that differs from it in letter case, in whitespace anywhere or
\* in trailing '='; normalizeSecret is idempotent.
C9_DecodeInvariantUnderNormalization ==
  DecodeDone =>
    /\ ("bytes" \in DOMAIN result) =>
         /\ Outcome(normalizeSecret(secret.text)) = result
         /\ \A u \in Variants(secret.text) : Outcome(u) = result
    /\ normalizeSecret(normalizeSecret(secret.text)) = normalizeSecret(secret.text)

C9_Witness ==
  /\ DecodeDone
  /\ secret.text = <<"b", " ", "7">>
  /\ result = [bytes |-> <<15>>]

\* position k of t holds trailing padding: a '=' followed only by '=' and whitespace
IsTrailingPad(t, k) ==
  /\ t[k] = "="
  /\ \A m \in (k + 1)..Len(t) : t[m] \in WhitespaceChars \cup {"="}

\* the positions left after removing whitespace and trailing '='
Remaining(t) == {k \in 1..Len(t) : t[k] \notin WhitespaceChars /\ ~IsTrailingPad(t, k)}

OutsideAlphabet(ch) ==
  \E m \in 1..Len(UpperChar(ch)) :
    UpperChar(ch)[m] \notin UpperLetters \cup {"2", "3", "4", "5", "6", "7"}

\* C10: decodeBase32 throws 'Empty Base32 string' iff nothing is left after
\* removing whitespace and trailing '='; otherwise it throws the invalid
\* character message iff a remaining character, upper-cased, is outside A-Z and
\* 2-7 (a '=' that is not trailing included); otherwise it returns bytes.
C10_DecodeClassifiesInput ==
  DecodeDone =>
    IF Remaining(secret.text) = {}
    THEN result = [thrown |-> <<"Empty Base32 string">>]
    ELSE IF \E k \in Remaining(secret.text) : OutsideAlphabet(secret.text[k])
      THEN result = [thrown |-> <<"Invalid base32 character in key">>]
      ELSE DOMAIN result = {"bytes"}

C10_Witness ==
  /\ DecodeDone
  /\ secret.text = <<"=", "A", "=">>
  /\ result = [thrown |-> <<"Invalid base32 character in key">>]

(***************************************************************************)
(* Claims about generateRandomSecret.                                      *)
(***************************************************************************)
RandomSecretDone == pc = "done" /\ op = "generateRandomSecret"

\* the length requested: 20 when the argument is absent
RequestedLength == IF args.length = <<>> THEN 20 ELSE args.length[1]

SecretAlphabet ==
  <<"A", "B", "C", "D", "E", "F", "G", "H", "I", "J", "K", "L", "M", "N", "O", "P",
    "Q", "R", "S", "T", "U", "V", "W", "X", "Y", "Z", "2", "3", "4", "5", "6", "7">>

\* C11: for a length n >= 1 and any n random bytes, generateRandomSecret
\* returns n symbols, the k-th being the alphabet symbol at index
\* (k-th byte mod 32); every symbol is in A-Z or 2-7, and a call without
\* a length returns 20 symbols.
C11_RandomSecretSymbolPerByte ==
  (RandomSecretDone /\ RequestedLength >= 1) =>
    /\ "text" \in DOMAIN result
    /\ Len(result.text) = RequestedLength
    /\ \A k \in 1..RequestedLength :
         /\ result.text[k] = SecretAlphabet[(args.randomBytes[k] % 32) + 1]
         /\ \E m \in 1..32 : result.text[k] = SecretAlphabet[m]
    /\ args.length = <<>> => Len(result.text) = 20

\* a default call that returned 20 symbols from bytes above 31
C11_Witness ==
  /\ RandomSecretDone
  /\ args.length = <<>>
  /\ "text" \in DOMAIN result
  /\ Len(result.text) = 20
  /\ \E k \in 1..20 : args.randomBytes[k] > 31 /\ result.text[k] = "Z"

RandomSecretFailed == "thrown" \in DOMAIN result /\ "text" \notin DOMAIN result

(***************************************************************************)
(* Claims about the command line tool.                                     *)
(***************************************************************************)
CliDone == pc = "done" /\ op = "cli"

Command == ArgAt(args.argv, 1)

Positionals == getNoOptionArgs(Tail(args.argv))

\* the lines of the given kinds on stdout
Printed(kinds) == {k \in 1..Len(result.stdout) : result.stdout[k].kind \in kinds}

\* create-secret was asked for a length that is zero or negative
CliLengthNotPositive ==
  /\ Command = CmdCreateSecret
  /\ ArgAt(Positionals, 1) # <<>>
  /\ parseInt(Positionals[1]) # <<>>
  /\ parseInt(Positionals[1])[1] <= 0

\* C12: a request for a secret of length <= 0 fails and returns or prints no
\* secret, through the command line (create-secret) as well as in a direct
\* call of generateRandomSecret.
C12_NonPositiveLengthFails ==
  /\ (RandomSecretDone /\ RequestedLength <= 0) => RandomSecretFailed
  /\ (CliDone /\ CliLengthNotPositive) =>
       /\ result.exit = 1
       /\ Printed({"secret"}) = {}
       /\ result.stderr = <<Line("error", <<"Length must be a positive number">>)>>

HelpRun == Command \in {<<>>, CmdHelp, FlagHelp}

\* the values given on the command line for the option key; an option
\* without a value is not given
GivenValues(key) ==
  LET rest == Tail(args.argv)
      parts(k) == SplitEquals(SubSeq(rest[k], 3, Len(rest[k])))
  IN  {parts(k)[2] : k \in {j \in 1..Len(rest) :
                              /\ StartsWithDashes(rest[j])
                              /\ parts(j)[1] = key
                              /\ Len(parts(j)) >= 2
                              /\ parts(j)[2] # <<>>}}

\* a text reads as a positive number
ReadsPositive(text) == parseInt(text) # <<>> /\ parseInt(text)[1] > 0

KnownAlgorithms ==
  {<<"S", "H", "A", "-", "1">>, <<"S", "H", "A", "-", "2", "5", "6">>,
   <<"S", "H", "A", "-", "5", "1", "2">>}

BadOption ==
  \/ \E v \in GivenValues(KeyAlgorithm) : v \notin KnownAlgorithms
  \/ \E v \in GivenValues(KeyDigits) : parseInt(v) \notin {<<6>>, <<8>>}
  \/ \E v \in GivenValues(KeyPeriod) \cup GivenValues(KeyWindow) : ~ReadsPositive(v)

MissingPositional ==
  \/ Command \in {CmdGenerate, CmdQrcode} /\ ArgAt(Positionals, 1) = <<>>
  \/ Command = CmdVerify /\ (ArgAt(Positionals, 1) = <<>> \/ ArgAt(Positionals, 2) = <<>>)

BadLength ==
  /\ Command = CmdCreateSecret
  /\ ArgAt(Positionals, 1) # <<>>
  /\ ~ReadsPositive(Positionals[1])

UnknownCommand ==
  Command \notin {CmdGenerate, CmdVerify, CmdQrcode, CmdCreateSecret}

\* the secret argument of the command, <<>> when the command takes none
SecretArgument ==
  IF Command \in {CmdGenerate, CmdQrcode} THEN ArgAt(Positionals, 1)
  ELSE IF Command = CmdVerify THEN ArgAt(Positionals, 2)
  ELSE <<>>

UndecodableSecret == SecretArgument # <<>> /\ ~decodeBase32(SecretArgument).ok

ValidationFailure ==
  /\ ~HelpRun
  /\ \/ BadOption
     \/ MissingPositional
     \/ BadLength
     \/ UnknownCommand
     \/ UndecodableSecret

\* the run did what the command is for
CommandSucceeded ==
  \/ HelpRun
  \/ Command = CmdGenerate /\ Printed({"code"}) # {}
  \/ Command = CmdVerify /\ Printed({"valid"}) # {}
  \/ Command = CmdQrcode /\ Printed({"dataUrl", "saved"}) # {}
  \/ Command = CmdCreateSecret /\ Printed({"secret"}) # {}

\* C13: a run of the command line tool exits with 0 exactly when the
\* command succeeds and with 1 after every validation failure (missing
\* positional argument, bad algorithm, digits, period, window or length,
\* unknown command, undecodable secret) and when verify finds the code
\* invalid; after a validation failure no code, secret or Valid line is
\* printed.
C13_CliExitCodes ==
  CliDone =>
    /\ result.exit \in {0, 1}
    /\ result.exit = 0 <=> CommandSucceeded
    /\ ValidationFailure =>
         (result.exit = 1 /\ Printed({"code", "secret", "valid"}) = {})
    /\ Printed({"invalid"}) # {} => result.exit = 1

(***************************************************************************)
(* Claims about generateHOTP.                                              *)
(***************************************************************************)
HotpDone == pc = "done" /\ op = "generateHOTP"

\* the big-endian bytes of n, width of them
RECURSIVE BigEndian(_, _)
BigEndian(n, width) ==
  IF width = 0 THEN <<>> ELSE BigEndian(n \div 256, width - 1) \o <<n % 256>>

\* the 8-byte big-endian representation of the counter hi * 2^24 + lo
EightBytes(w) == <<0>> \o BigEndian(w.hi, 4) \o BigEndian(w.lo, 3)

\* C14: the buffer that generateHOTP hashes is the 8-byte big-endian
\* representation of the counter, for every counter from 0 on, those of
\* 2^32 and above included.
C14_CounterBufferIsBigEndian ==
  HotpDone => result.counterBuffer = EightBytes(args.counter)

\* RFC 4226, section 5.3, on a digest indexed from 0
RfcOffset(digest) == digest[Len(digest)] % 16

RfcByte(digest, k) == digest[k + 1]

RfcBinary(digest) ==
  LET o == RfcOffset(digest)
  IN  (RfcByte(digest, o) % 128) * 16777216 + RfcByte(digest, o + 1) * 65536
        + RfcByte(digest, o + 2) * 256 + RfcByte(digest, o + 3)

\* the decimal digits of n, at least one
RECURSIVE Decimal(_)
Decimal(n) ==
  IF n < 10 THEN <<DigitChars[n + 1]>>
  ELSE Decimal(n \div 10) \o <<DigitChars[(n % 10) + 1]>>

\* n mod 10^d for 0 <= n < 2^31: the d lowest decimal digits of n
RECURSIVE LowDigits(_, _)
LowDigits(n, d) ==
  IF d = 0 THEN <<>> ELSE LowDigits(n \div 10, d - 1) \o <<DigitChars[(n % 10) + 1]>>

\* C15: for a digest of 20, 32 or 64 bytes and digits >= 1 the result of
\* generateHOTP is the RFC 4226 value: the offset is the low nibble of the
\* last byte and offset+3 is an index of the digest, the binary value is the
\* four bytes at the offset with the top bit cleared, within 0..2^31-1, and
\* the text is that value mod 10^digits in decimal, padded with "0" to
\* exactly digits characters, all decimal digits.
C15_TruncationMatchesRfc ==
  (HotpDone /\ Len(result.digest) \in {20, 32, 64} /\ args.digits >= 1) =>
    /\ RfcOffset(result.digest) + 3 <= Len(result.digest) - 1
    /\ RfcBinary(result.digest) \in 0..2147483647
    /\ Len(result.code) = args.digits
    /\ \A k \in 1..Len(result.code) : IsDigit(result.code[k])
    /\ result.code = LowDigits(RfcBinary(result.digest), args.digits)

\* a digest whose last byte selects offset 15 and whose byte there has the
\* top bit set, read as 2^31 - 1 and printed with ten digits
C15_Witness ==
  /\ HotpDone
  /\ RfcOffset(result.digest) = 15
  /\ RfcByte(result.digest, 15) >= 128
  /\ RfcBinary(result.digest) = 2147483647
  /\ args.digits = 10
  /\ result.code = <<"2", "1", "4", "7", "4", "8", "3", "6", "4", "7">>

(***************************************************************************)
(* Claims about the time step of generateTOTP.                             *)
(***************************************************************************)
\* the options of the call with the documented defaults filled in
AlgorithmOrSha1 == IF options.algorithm = <<>> THEN "SHA-1" ELSE options.algorithm[1]
DigitsOrSix == IF options.digits = <<>> THEN 6 ELSE options.digits[1]
PeriodOrThirty == IF options.period = <<>> THEN 30 ELSE options.period[1]

\* timestamp lies in the k-th step: [k*period*1000, (k+1)*period*1000 - 1]
InStep(timestamp, k, period) ==
  k * period * 1000 <= timestamp /\ timestamp <= (k + 1) * period * 1000 - 1

\* C16: generateTOTP returns the HOTP code of the counter k whose step
\* [k*period*1000, (k+1)*period*1000 - 1] holds the timestamp, so a step's
\* timestamps share one code and the next step starts at (k+1)*period*1000;
\* absent options mean SHA-1, 6 digits and a period of 30 seconds.
C16_CodeOfTheTimeStep ==
  (GenerateDone /\ SecretUsable /\ Timestamp >= 0 /\ PeriodOrThirty >= 1) =>
    /\ "code" \in DOMAIN result
    /\ \A k \in 0..(Timestamp \div 1000) :
         InStep(Timestamp, k, PeriodOrThirty) =>
           result.code = generateHOTP(KeyBytes, k, AlgorithmOrSha1, DigitsOrSix)
    /\ \E k \in 0..(Timestamp \div 1000) : InStep(Timestamp, k, PeriodOrThirty)

\* the last millisecond of step 0 at period 2, with the default algorithm
\* and digits: the code of counter 0, which differs from that of counter 1
C16_Witness ==
  /\ GenerateDone
  /\ SecretUsable
  /\ options.timestamp = <<1999>>
  /\ options.period = <<2>>
  /\ options.algorithm = <<>>
  /\ options.digits = <<>>
  /\ result.code = generateHOTP(KeyBytes, 0, "SHA-1", 6)
  /\ result.code # generateHOTP(KeyBytes, 1, "SHA-1", 6)

(***************************************************************************)
(* Claims about the bits decoded by decodeBase32.                          *)
(***************************************************************************)
\* the 5-bit value of a Base32 symbol
SymbolValue(ch) == (CHOOSE m \in 1..32 : SecretAlphabet[m] = ch) - 1

IsSymbol(ch) == \E m \in 1..32 : SecretAlphabet[m] = ch

\* bit m (from 0) of the big-endian concatenation of the symbols' values
BitAt(t, m) == (SymbolValue(t[(m \div 5) + 1]) \div Pow(2, 4 - (m % 5))) % 2

\* byte k (from 0) of that bit string
ByteAt(t, k) ==
  BitAt(t, 8 * k) * 128 + BitAt(t, 8 * k + 1) * 64 + BitAt(t, 8 * k + 2) * 32
    + BitAt(t, 8 * k + 3) * 16 + BitAt(t, 8 * k + 4) * 8 + BitAt(t, 8 * k + 5) * 4
    + BitAt(t, 8 * k + 6) * 2 + BitAt(t, 8 * k + 7)

\* C17: for a normalized Base32 text of n >= 1 symbols decodeBase32 returns
\* floor(5n/8) bytes, the leading whole bytes of the symbols' 5-bit values
\* written one after the other; the 5n mod 8 trailing bits are dropped
\* without error, also when the text is long enough for the accumulator to
\* wrap at 32 bits.
C17_DecodeReturnsLeadingBits ==
  (/\ DecodeDone
   /\ Len(secret.text) >= 1
   /\ \A k \in 1..Len(secret.text) : IsSymbol(secret.text[k])) =>
    /\ "bytes" \in DOMAIN result
    /\ Len(result.bytes) = (5 * Len(secret.text)) \div 8
    /\ \A k \in 1..Len(result.bytes) : result.bytes[k] = ByteAt(secret.text, k - 1)

\* eleven symbols, 55 bits: six bytes with both nibbles in use, seven bits
\* dropped
C17_Witness ==
  /\ DecodeDone
  /\ Len(secret.text) = 11
  /\ result = [bytes |-> <<248, 62, 15, 131, 224, 248>>]

(***************************************************************************)
(* Claims about the counters probed and the errors of verifyTOTP.          *)
(***************************************************************************)
\* C18: with a timestamp >= 0, a period >= 1 and a window >= 0, every
\* counter that generateTOTP computes, and every counter that the window
\* loop of verifyTOTP probes, is >= 0.
C18_CountersNonNegative ==
  /\ (GenerateDone /\ Timestamp >= 0 /\ Period >= 1) =>
       CounterAt(Timestamp, Period) >= 0
  /\ (op = "verifyTOTP" /\ Timestamp >= 0 /\ Period >= 1 /\ Window >= 0) =>
       \A k \in 1..Len(probed) : probed[k].counter >= 0

Threw == "thrown" \in DOMAIN result

\* C19: verifyTOTP answers a malformed token (empty, wrong length, not all
\* digits) with {valid: false} and without an error, whatever the secret;
\* an error about the secret arises only for a well-formed token with a
\* window >= 0, and at the first offset probed.
C19_FormatMismatchBeforeSecret ==
  op = "verifyTOTP" =>
    /\ (pc = "done" /\ ~WellFormed) => (Rejected /\ totpCalls = 0)
    /\ Threw =>
         /\ WellFormed
         /\ Window >= 0
         /\ ~SecretUsable
         /\ result.thrown = MissingSecret \/ Head(result.thrown) = "Invalid secret: "
         /\ totpCalls = 1
         /\ probed = <<>>
         /\ i = 0 - Window
    /\ (pc = "done" /\ WellFormed /\ Window >= 0 /\ ~SecretUsable) => Threw

\* a token of the right length with a non-digit, presented with a secret
\* that does not decode: rejected, nothing computed
C19_Witness ==
  /\ VerifyDone
  /\ secret = TextSecret(<<"!">>)
  /\ Len(token) = Digits
  /\ ~WellFormed
  /\ Rejected
  /\ totpCalls = 0
  /\ decodeCalls = 0

====
